---------------------------- MODULE Spec2Model ----------------------------
(***************************************************************************)
(* Transaction tagger (MisterMushn/bilanzieren).                           *)
(*                                                                         *)
(* The model covers                                                        *)
(*   - the helpers of helpers.py (try_read_csv, ensure_tag_columns,        *)
(*     untagged_mask, keyword_mask, most_common),                          *)
(*   - the table type of pandas/__init__.py they run on (read_csv,         *)
(*     DataFrame_from_rows, DataFrame.__setitem__, to_csv),                *)
(*   - the script of streamlit_app.py, one script run per interaction.     *)
(*                                                                         *)
(* A Python string is a sequence of one-character strings, so that strip,  *)
(* lower, upper, replace, split, substring search, float() and repr() are  *)
(* computed character by character.  A cell is a record: null, a string    *)
(* or a float.  A float is the decimal m / 10^e in lowest form (m not      *)
(* divisible by 10 unless e = 0); the literals of the model have at most   *)
(* a handful of digits, where float(repr(x)) = x and the decimal form is   *)
(* exact.                                                                  *)
(***************************************************************************)
EXTENDS Integers, Sequences, FiniteSets, TLC

VARIABLES
    uploaded,       \* streamlit_app.py:99    value of the file_uploader widget
    session_df,     \* st.session_state["df"]
    session_mask,   \* st.session_state["mask"]
    last,           \* locals and outputs of the latest script run
    download,       \* streamlit_app.py:170   data handed to the download button
    step,           \* position of the helper pipelines (SpecIngest, SpecFreq)
    csv_in,         \* the CSV given to try_read_csv
    table,          \* the table built from csv_in
    csv_out,        \* table.to_csv()
    table2,         \* read_csv of csv_out
    fq_in,          \* arguments of most_common
    freq_df         \* result of most_common

vars == <<uploaded, session_df, session_mask, last, download,
          step, csv_in, table, csv_out, table2, fq_in, freq_df>>

sessionVars == <<uploaded, session_df, session_mask, last, download>>
ingestVars  == <<csv_in, table, csv_out, table2>>
freqVars    == <<fq_in, freq_df>>

\* Bounds of the model.
MaxRows  == 2       \* data rows of a CSV given to try_read_csv
MaxCells == 2       \* cells of a column given to most_common
MaxK     == 2       \* largest k given to most_common

\* An optional value (Python None / a missing session key) is a sequence of
\* length 0 or 1.
None == << >>
Some(x) == <<x>>
IsSome(o) == Len(o) = 1
Get(o) == o[1]

Min(a, b) == IF a <= b THEN a ELSE b

(***************************************************************************)
(* Strings                                                                 *)
(***************************************************************************)
LowerLetters == <<"a","b","c","d","e","f","g","h","i","j","k","l","m",
                  "n","o","p","q","r","s","t","u","v","w","x","y","z","ü">>
UpperLetters == <<"A","B","C","D","E","F","G","H","I","J","K","L","M",
                  "N","O","P","Q","R","S","T","U","V","W","X","Y","Z","Ü">>
Digits == <<"0","1","2","3","4","5","6","7","8","9">>

IndexIn(c, seq) ==
    IF \E i \in 1..Len(seq) : seq[i] = c
    THEN CHOOSE i \in 1..Len(seq) : seq[i] = c
    ELSE 0

IsDigit(c)  == IndexIn(c, Digits) # 0
DigitVal(c) == IndexIn(c, Digits) - 1
IsLetter(c) == IndexIn(c, LowerLetters) # 0 \/ IndexIn(c, UpperLetters) # 0
IsSpace(c)  == c \in {" ", "\t"}
\* \w of the re module: letters, digits and the underscore
IsWordChar(c) == IsLetter(c) \/ IsDigit(c) \/ c = "_"

UpperChar(c) == IF IndexIn(c, LowerLetters) # 0
                THEN UpperLetters[IndexIn(c, LowerLetters)] ELSE c
LowerChar(c) == IF IndexIn(c, UpperLetters) # 0
                THEN LowerLetters[IndexIn(c, UpperLetters)] ELSE c

\* str.upper, str.lower
Upper(s) == [i \in 1..Len(s) |-> UpperChar(s[i])]
Lower(s) == [i \in 1..Len(s) |-> LowerChar(s[i])]

\* str.replace(old, new) for one-character old and new
Replace(s, old, new) == [i \in 1..Len(s) |-> IF s[i] = old THEN new ELSE s[i]]

RECURSIVE LStrip(_)
LStrip(s) == IF s # << >> /\ IsSpace(Head(s)) THEN LStrip(Tail(s)) ELSE s

RECURSIVE RStrip(_)
RStrip(s) == IF s # << >> /\ IsSpace(s[Len(s)])
             THEN RStrip(SubSeq(s, 1, Len(s) - 1)) ELSE s

\* str.strip
Strip(s) == RStrip(LStrip(s))

\* pat in s
Contains(s, pat) ==
    \E i \in 0..(Len(s) - Len(pat)) : SubSeq(s, i + 1, i + Len(pat)) = pat

\* str.split(): the maximal runs of non-whitespace characters
RECURSIVE SplitFrom(_, _)
SplitFrom(s, cur) ==
    IF s = << >>
    THEN IF cur = << >> THEN << >> ELSE <<cur>>
    ELSE IF IsSpace(Head(s))
         THEN (IF cur = << >> THEN << >> ELSE <<cur>>) \o SplitFrom(Tail(s), << >>)
         ELSE SplitFrom(Tail(s), Append(cur, Head(s)))

Split(s) == SplitFrom(s, << >>)

(***************************************************************************)
(* Floats: float(v) and repr(x)                                            *)
(***************************************************************************)
RECURSIVE Pow10(_)
Pow10(n) == IF n = 0 THEN 1 ELSE 10 * Pow10(n - 1)

RECURSIVE DigitsValue(_)
DigitsValue(s) ==
    IF s = << >> THEN 0
    ELSE 10 * DigitsValue(SubSeq(s, 1, Len(s) - 1)) + DigitVal(s[Len(s)])

RECURSIVE IntDigits(_)
IntDigits(n) ==
    IF n < 10 THEN <<Digits[n + 1]>>
    ELSE Append(IntDigits(n \div 10), Digits[(n % 10) + 1])

RECURSIVE ZeroPad(_, _)
ZeroPad(s, n) == IF Len(s) >= n THEN s ELSE ZeroPad(<<"0">> \o s, n)

RECURSIVE Lowest(_, _)
Lowest(m, e) == IF e > 0 /\ m % 10 = 0 THEN Lowest(m \div 10, e - 1)
                ELSE <<m, e>>

\* Whether float(s) succeeds.  Over the characters the model feeds it
\* (digits, ".", ",", blanks, letters other than a literal "nan", "inf" or an
\* exponent) float() accepts exactly: optional surrounding whitespace around
\* digits with at most one "." and at least one digit.
IsFloatLiteral(s) ==
    LET t == Strip(s) IN
    /\ t # << >>
    /\ \A i \in 1..Len(t) : IsDigit(t[i]) \/ t[i] = "."
    /\ Cardinality({i \in 1..Len(t) : t[i] = "."}) <= 1
    /\ \E i \in 1..Len(t) : IsDigit(t[i])

\* float(s) of a literal, as <<m, e>> in lowest form
FloatOf(s) ==
    LET t    == Strip(s)
        dot  == IndexIn(".", t)
        ds   == SelectSeq(t, IsDigit)
        frac == IF dot = 0 THEN 0 ELSE Len(t) - dot
    IN Lowest(DigitsValue(ds), frac)

\* repr(x) of the float m / 10^e: "1.5", "12.0", "0.25"
FloatRepr(m, e) ==
    IF e = 0 THEN IntDigits(m) \o <<".", "0">>
    ELSE IntDigits(m \div Pow10(e)) \o <<".">> \o ZeroPad(IntDigits(m % Pow10(e)), e)

(***************************************************************************)
(* Cells and series                                                        *)
(***************************************************************************)
Null     == [k |-> "null", s |-> << >>, m |-> 0, e |-> 0]
Str(s)   == [k |-> "str",  s |-> s,     m |-> 0, e |-> 0]
Num(m,e) == [k |-> "num",  s |-> << >>, m |-> m, e |-> e]

\* str(x) of a non-null cell value
PyStr(c) == IF c.k = "num" THEN FloatRepr(c.m, c.e) ELSE c.s

\* Series.astype(str): "" for None, str(x) otherwise
AsTypeStr(c) == IF c.k = "null" THEN << >> ELSE PyStr(c)


(***************************************************************************)
(* Tables (pandas/__init__.py)                                             *)
(*                                                                         *)
(* A DataFrame is its column list and its _data dictionary.  A CSV text is *)
(* what csv.reader yields from it: the header fields (column names) and    *)
(* the data rows, each a sequence of field strings, together with the      *)
(* delimiter csv.Sniffer finds in it ("" when it reports none).            *)
(***************************************************************************)
Range(seq) == {seq[i] : i \in 1..Len(seq)}

\* list(dict.keys()) of a dictionary filled in the order of seq
RECURSIVE Keys(_)
Keys(seq) ==
    IF seq = << >> THEN << >>
    ELSE LET k == Keys(SubSeq(seq, 1, Len(seq) - 1))
         IN IF seq[Len(seq)] \in Range(k) THEN k ELSE Append(k, seq[Len(seq)])

EmptyFrame == [columns |-> << >>, data |-> [c \in {} |-> << >>]]

\* DataFrame.n_rows
n_rows(df) == IF df.columns = << >> THEN 0 ELSE Len(df.data[df.columns[1]])

HasColumn(df, col) == col \in Range(df.columns)

\* DataFrame.__setitem__(col, value) for a scalar value
SetColumn(df, col, value) ==
    [columns |-> IF HasColumn(df, col) THEN df.columns ELSE Append(df.columns, col),
     data    |-> [c \in DOMAIN df.data \cup {col} |->
                    IF c = col THEN [i \in 1..n_rows(df) |-> value]
                    ELSE df.data[c]]]

\* The body of the loop over one field (pandas/__init__.py:140-149)
ConvertField(val, decimal) ==
    IF val = << >> THEN Null
    ELSE LET v == IF decimal # "." THEN Replace(val, decimal, ".") ELSE val
         IN IF IsFloatLiteral(v) THEN Num(FloatOf(v)[1], FloatOf(v)[2])
            ELSE Str(v)

\* What one row appends to cols[h]: zip(headers, row) stops at the shorter
RECURSIVE RowCells(_, _, _, _, _)
RowCells(h, headers, row, j, decimal) ==
    IF j > Min(Len(headers), Len(row)) THEN << >>
    ELSE (IF headers[j] = h THEN <<ConvertField(row[j], decimal)>> ELSE << >>)
         \o RowCells(h, headers, row, j + 1, decimal)

RECURSIVE ColumnCells(_, _, _, _)
ColumnCells(h, headers, rows, decimal) ==
    IF rows = << >> THEN << >>
    ELSE RowCells(h, headers, Head(rows), 1, decimal)
         \o ColumnCells(h, headers, Tail(rows), decimal)

DataFrame_from_rows(headers, rows, decimal) ==
    [columns |-> Keys(headers),
     data    |-> [h \in Range(headers) |-> ColumnCells(h, headers, rows, decimal)]]

\* read_csv: no row at all gives DataFrame({})
read_csv(file, sep, decimal) ==
    IF file.headers = << >> /\ file.rows = << >> THEN EmptyFrame
    ELSE DataFrame_from_rows(file.headers, file.rows, decimal)

\* DataFrame.to_csv: None when a row reads past the end of a column
\* (IndexError), else the written text as csv.reader splits it again.
\* csv.writer writes None as the empty field and a float as its repr.
WriteField(c) == IF c.k = "null" THEN << >> ELSE PyStr(c)

to_csv(df) ==
    IF \E c \in Range(df.columns) : Len(df.data[c]) < n_rows(df) THEN None
    ELSE Some([sep     |-> ",",
               headers |-> df.columns,
               rows    |-> [i \in 1..n_rows(df) |->
                              [j \in 1..Len(df.columns) |->
                                 WriteField(df.data[df.columns[j]][i])]]])

(***************************************************************************)
(* helpers.py                                                              *)
(***************************************************************************)
try_read_csv(file) ==
    LET sep     == IF file.sep = "" THEN ";" ELSE file.sep
        decimal == IF sep = ";" THEN "," ELSE "."
    IN read_csv(file, sep, decimal)

RECURSIVE EnsureFrom(_, _)
EnsureFrom(df, cols) ==
    IF cols = << >> THEN df
    ELSE EnsureFrom(IF HasColumn(df, Head(cols)) THEN df
                    ELSE SetColumn(df, Head(cols), Str(<< >>)),
                    Tail(cols))

ensure_tag_columns(df) == EnsureFrom(df, <<"Category", "Subcategory">>)

\* fillna("").astype(str).str.strip() == ""
IsUntagged(c) == Strip(AsTypeStr(c)) = << >>

untagged_mask(df) ==
    [i \in 1..Len(df.data["Category"]) |-> IsUntagged(df.data["Category"][i])]

\* keyword_mask with the case folding left out (case=True)
keyword_mask_case_sensitive(series, kw) ==
    [i \in 1..Len(series) |-> Contains(AsTypeStr(series[i]), kw)]

\* astype(str).str.contains(kw, case=False, na=False, regex=False)
keyword_mask(series, kw) ==
    [i \in 1..Len(series) |-> Contains(Lower(AsTypeStr(series[i])), Lower(kw))]


(***************************************************************************)
(* most_common (helpers.py:19-47)                                          *)
(***************************************************************************)
GER_STOP == {<<"U","N","D">>, <<"F","Ü","R">>, <<"F","U","R">>,
             <<"V","O","N">>, <<"D","E","R">>, <<"D","I","E">>,
             <<"M","I","T">>, <<"A","U","F">>, <<"I","M">>,
             <<"A","M">>, <<"D","E","N">>, <<"E","I","N">>,
             <<"E","I","N","E">>, <<"D","E","S">>, <<"I","N">>,
             <<"A","N">>}
ENG_STOP == {<<"A","N","D">>, <<"T","H","E">>, <<"T","O">>,
             <<"F","O","R">>, <<"O","F">>, <<"I","N">>,
             <<"A","T">>, <<"O","N">>, <<"B","Y">>,
             <<"M","Y">>, <<"P","A","Y">>}
STOPWORDS == GER_STOP \cup ENG_STOP

\* re.sub(r"[^\w\s]", " ", str(txt).upper()), then split and filter
normalise(txt, min_len) ==
    LET up  == Upper(PyStr(txt))
        sub == [i \in 1..Len(up) |->
                  IF IsWordChar(up[i]) \/ IsSpace(up[i]) THEN up[i] ELSE " "]
        keep(tok) == tok \notin STOPWORDS /\ Len(tok) >= min_len
    IN SelectSeq(Split(sub), keep)

\* The tokens bag.update receives, in order: df[col].dropna().map(normalise)
RECURSIVE BagTokens(_, _)
BagTokens(series, min_len) ==
    IF series = << >> THEN << >>
    ELSE (IF Head(series).k = "null" THEN << >>
          ELSE normalise(Head(series), min_len))
         \o BagTokens(Tail(series), min_len)

\* bag[w]
Count(tokens, w) == Cardinality({i \in 1..Len(tokens) : tokens[i] = w})

RemoveAt(seq, i) == SubSeq(seq, 1, i - 1) \o SubSeq(seq, i + 1, Len(seq))

\* most_common(k) with ties taken in reverse insertion order (an unstable
\* descending sort)
RECURSIVE NLargestLastTie(_, _, _)
NLargestLastTie(k, keys, tokens) ==
    IF k <= 0 \/ keys = << >> THEN << >>
    ELSE LET best == CHOOSE i \in 1..Len(keys) :
                       /\ \A j \in 1..Len(keys) :
                            Count(tokens, keys[j]) <= Count(tokens, keys[i])
                       /\ \A j \in (i + 1)..Len(keys) :
                            Count(tokens, keys[j]) < Count(tokens, keys[i])
         IN <<keys[best]>> \o NLargestLastTie(k - 1, RemoveAt(keys, best), tokens)

\* Counter.most_common(k): heapq.nlargest(k, items, key=count), which keeps
\* the dictionary's order among equal counts
RECURSIVE NLargest(_, _, _)
NLargest(k, keys, tokens) ==
    IF k <= 0 \/ keys = << >> THEN << >>
    ELSE LET best == CHOOSE i \in 1..Len(keys) :
                       /\ \A j \in 1..Len(keys) :
                            Count(tokens, keys[j]) <= Count(tokens, keys[i])
                       /\ \A j \in 1..(i - 1) :
                            Count(tokens, keys[j]) < Count(tokens, keys[i])
         IN <<keys[best]>> \o NLargest(k - 1, RemoveAt(keys, best), tokens)

\* DataFrame.__init__(self, data): a call without data, or with a keyword
\* the signature does not have, raises TypeError; a list of row dictionaries
\* gives the rows' table.
DataFrameInit(data, kwargs) ==
    IF data = None \/ kwargs # {} THEN [raised |-> TRUE, rows |-> << >>]
    ELSE [raised |-> FALSE, rows |-> Get(data)]

\* share is the quotient count / total, kept as the pair <<count, total>>
most_common(series, k, min_len) ==
    LET tokens == BagTokens(series, min_len)
        bag    == Keys(tokens)
        total  == Len(tokens)
        top    == NLargest(k, bag, tokens)
    IN IF bag = << >> THEN DataFrameInit(None, {"columns"})
       ELSE DataFrameInit(
              Some([i \in 1..Len(top) |->
                      [keyword |-> top[i],
                       count   |-> Count(tokens, top[i]),
                       share   |-> <<Count(tokens, top[i]), total>>]]),
              {})


(***************************************************************************)
(* Tagging (streamlit_app.py:144-150)                                      *)
(***************************************************************************)
\* mask.any(), mask.sum()
MaskAny(mask) == \E i \in 1..Len(mask) : mask[i]
MaskSum(mask) == Cardinality({i \in 1..Len(mask) : mask[i]})

\* base & keyword_mask(...)
MaskAnd(a, b) == [i \in 1..Min(Len(a), Len(b)) |-> a[i] /\ b[i]]

\* df.loc[mask, col] = value: the rows the mask selects get value
LocSet(df, mask, col, value) ==
    [df EXCEPT !.data[col] =
        [i \in 1..Len(@) |-> IF i <= Len(mask) /\ mask[i] THEN value ELSE @[i]]]

\* The tag written as typed, without strip()
ApplyTagUnstripped(df, mask, cat, sub) ==
    LocSet(LocSet(df, mask, "Category", Str(cat)), mask, "Subcategory", Str(sub))

\* streamlit_app.py:145-146
ApplyTag(df, mask, cat, sub) ==
    LocSet(LocSet(df, mask, "Category", Str(Strip(cat))),
           mask, "Subcategory", Str(Strip(sub)))

(***************************************************************************)
(* Inputs                                                                  *)
(***************************************************************************)
SeqsUpTo(S, n) == UNION {[1..m -> S] : m \in 0..n}

\* Cells of a column given to most_common:
\* "to ab", "Ab,cd", "cd", "ab cd x", "to", None and the float 1.5
FreqCells == {Str(<<"t","o"," ","a","b">>), Str(<<"A","b",",","c","d">>), Str(<<"c","d">>),
              Str(<<"a","b"," ","c","d"," ","x">>), Str(<<"t","o">>),
              Null, Num(15, 1)}
MinLens == {1, 2, 3}

\* Fields of a CSV row: "", "1,5", "1.5", "x,y"
FieldSamples == {<< >>, <<"1",",","5">>, <<"1",".","5">>, <<"x",",","y">>}
HeaderSamples == {<<"A", "B">>, <<"A", "Category">>}
\* A row has fewer fields than the header, as many, or more
RowSamples == UNION {[1..n -> FieldSamples] : n \in 1..3}
CsvSamples == [sep : {";", ","}, headers : HeaderSamples,
               rows : SeqsUpTo(RowSamples, MaxRows)]

\* Text typed into the tag boxes: "P", "7" / "e"
TagCats == {<<"P">>, <<"7">>}
TagSubs == {<<"e">>}

IdleRun == [op |-> "none", df |-> None, mask |-> None, smask |-> None,
            col |-> "", kw |-> << >>, cat |-> << >>, sub |-> << >>,
            tagged |-> FALSE, count |-> 0, raised |-> FALSE]

SessionIdle ==
    /\ uploaded = None /\ session_df = None /\ session_mask = None
    /\ last = IdleRun /\ download = None
IngestIdle == csv_in = None /\ table = None /\ csv_out = None /\ table2 = None
FreqIdle == fq_in = None /\ freq_df = None

(***************************************************************************)
(* SpecFreq: most_common applied to a column                               *)
(***************************************************************************)
InitFreq ==
    /\ SessionIdle /\ IngestIdle
    /\ step = "call"
    /\ fq_in \in {Some(a) : a \in [series : SeqsUpTo(FreqCells, MaxCells),
                                   k : 0..MaxK, min_len : MinLens]}
    /\ freq_df = None

MostCommonCall ==
    /\ step = "call"
    /\ freq_df' = Some(most_common(Get(fq_in).series, Get(fq_in).k,
                                   Get(fq_in).min_len))
    /\ step' = "returned"
    /\ UNCHANGED <<sessionVars, ingestVars, fq_in>>

NextFreq == MostCommonCall

SpecFreq == InitFreq /\ [][NextFreq]_vars

(***************************************************************************)
(* SpecIngest: a CSV is read, given its tag columns, tagged, written and   *)
(* read again                                                              *)
(***************************************************************************)
InitIngest ==
    /\ SessionIdle /\ FreqIdle
    /\ step = "start"
    /\ csv_in \in {Some(f) : f \in CsvSamples}
    /\ table = None /\ csv_out = None /\ table2 = None

Ingest ==
    /\ step = "start"
    /\ table' = Some(try_read_csv(Get(csv_in)))
    /\ step' = "ingested"
    /\ UNCHANGED <<sessionVars, freqVars, csv_in, csv_out, table2>>

EnsureTagColumns ==
    /\ step = "ingested"
    /\ table' = Some(ensure_tag_columns(Get(table)))
    /\ step' = "ensured"
    /\ UNCHANGED <<sessionVars, freqVars, csv_in, csv_out, table2>>

TagUntagged ==
    /\ step = "ensured"
    /\ \E cat \in TagCats, sub \in TagSubs :
         table' = Some(ApplyTag(Get(table), untagged_mask(Get(table)), cat, sub))
    /\ step' = "tagged"
    /\ UNCHANGED <<sessionVars, freqVars, csv_in, csv_out, table2>>

Export ==
    /\ step \in {"ensured", "tagged"}
    /\ csv_out' = to_csv(Get(table))
    /\ step' = "exported"
    /\ UNCHANGED <<sessionVars, freqVars, csv_in, table, table2>>

Reingest ==
    /\ step = "exported"
    /\ csv_out # None
    /\ table2' = Some(read_csv(Get(csv_out), ",", "."))
    /\ step' = "reingested"
    /\ UNCHANGED <<sessionVars, freqVars, csv_in, table, csv_out>>

NextIngest == Ingest \/ EnsureTagColumns \/ TagUntagged \/ Export \/ Reingest

SpecIngest == InitIngest /\ [][NextIngest]_vars


(***************************************************************************)
(* Spec: the script of streamlit_app.py.                                   *)
(*                                                                         *)
(* Streamlit runs the whole script once per interaction; st.session_state  *)
(* and the widgets' values (the uploader's file among them) are what       *)
(* passes from one run to the next.  Every action below is one run.  The   *)
(* script indexes the table with a boolean mask (df[mask], df.loc[mask,    *)
(* col] = v): rows the mask marks are selected, a mask with more entries   *)
(* than the table has rows is cut to the table's rows, and a mask with     *)
(* fewer entries cannot be aligned and raises.                             *)
(***************************************************************************)
\* Uploaded files:
\*   FileA  desc;amt        FileB  desc,Category      FileC  desc;amt
\*          ab;1,5                 ab,x                      aB;1,5
\*          B c;2                  ," "
FileA == [sep |-> ";", headers |-> <<"desc", "amt">>,
          rows |-> << <<<<"a","b">>, <<"1",",","5">>>>,
                      <<<<"B"," ","c">>, <<"2">>>> >>]
FileB == [sep |-> ",", headers |-> <<"desc", "Category">>,
          rows |-> << <<<<"a","b">>, <<"x">>>>, <<<< >>, <<" ">>>> >>]
FileC == [sep |-> ";", headers |-> <<"desc", "amt">>,
          rows |-> << <<<<"a","B">>, <<"1",",","5">>>> >>]
SessionFiles == {FileA, FileB, FileC}

\* Text typed into the keyword box ("", "b", "C") and the tag boxes
\* ("", " ", "P", " P" / "", "e", "e ")
Keywords == {<< >>, <<"b">>, <<"C">>}
SessionCats == {<< >>, <<" ">>, <<"P">>, <<" ","P">>}
SessionSubs == {<< >>, <<"e">>, <<"e"," ">>}

\* streamlit_app.py:100-109: the table the run works on, None when the
\* script stops at st.stop()
AfterUpload(up, sdf) ==
    IF up # None THEN Some(ensure_tag_columns(try_read_csv(Get(up)))) ELSE sdf

\* streamlit_app.py:117: the columns of dtype object
TextCols(df) ==
    {c \in Range(df.columns) :
        \E i \in 1..Len(df.data[c]) : df.data[c][i].k = "str"}

\* streamlit_app.py:120-124
SearchMask(df, col, kw) ==
    LET base == untagged_mask(df)
    IN IF kw # << >> THEN MaskAnd(base, keyword_mask(df.data[col], kw))
       ELSE base

\* One run of the script with the uploader holding up: op is the
\* interaction that started it, click the button pressed ("search", "tag"
\* or "none").
Script(up, op, click, col, kw, cat, sub) ==
    LET sdf1 == AfterUpload(up, session_df) IN
    IF sdf1 = None
    THEN /\ session_df' = session_df
         /\ session_mask' = session_mask
         /\ last' = [IdleRun EXCEPT !.op = op]
         /\ download' = None
    ELSE
    LET df     == Get(sdf1)
        smask1 == IF click = "search" THEN Some(SearchMask(df, col, kw))
                  ELSE session_mask
        mask   == IF smask1 # None THEN Get(smask1) ELSE untagged_mask(df)
        doTag  == click = "tag" /\ cat # << >> /\ sub # << >> /\ MaskAny(mask)
        df2    == IF doTag THEN ApplyTag(df, mask, cat, sub) ELSE df
    IN IF Len(mask) < n_rows(df)
       THEN /\ session_df' = sdf1
            /\ session_mask' = smask1
            /\ last' = [IdleRun EXCEPT !.op = op, !.raised = TRUE]
            /\ download' = None
       ELSE /\ session_df' = Some(df2)
            /\ session_mask' = IF doTag THEN Some(untagged_mask(df2)) ELSE smask1
            /\ last' = [op |-> op, df |-> Some(df), mask |-> Some(mask),
                        smask |-> smask1, col |-> col, kw |-> kw,
                        cat |-> cat, sub |-> sub, tagged |-> doTag,
                        count |-> IF doTag THEN MaskSum(mask) ELSE 0,
                        raised |-> FALSE]
            /\ download' = to_csv(df2)

Init ==
    /\ SessionIdle /\ IngestIdle /\ FreqIdle
    /\ step = "session"

\* The page shows the sidebar / the tag boxes and the download button
SidebarShown == AfterUpload(uploaded, session_df) # None
PageShown == last.mask # None

\* A file is put into the uploader
Upload ==
    /\ \E f \in SessionFiles :
         /\ uploaded' = Some(f)
         /\ Script(Some(f), "upload", "none", "", << >>, << >>, << >>)
    /\ UNCHANGED <<step, ingestVars, freqVars>>

\* The file is taken out of the uploader
RemoveFile ==
    /\ uploaded # None
    /\ uploaded' = None
    /\ Script(None, "remove", "none", "", << >>, << >>, << >>)
    /\ UNCHANGED <<step, ingestVars, freqVars>>

\* "Search / Refresh" is pressed
SearchRefresh ==
    /\ SidebarShown
    /\ \E col \in TextCols(Get(AfterUpload(uploaded, session_df))),
          kw \in Keywords :
         Script(uploaded, "search", "search", col, kw, << >>, << >>)
    /\ UNCHANGED <<uploaded, step, ingestVars, freqVars>>

\* "Tag rows" is pressed
TagRows ==
    /\ PageShown
    /\ \E cat \in SessionCats, sub \in SessionSubs :
         Script(uploaded, "tag", "tag", "", << >>, cat, sub)
    /\ UNCHANGED <<uploaded, step, ingestVars, freqVars>>

\* Any other widget changes (the analysis sliders, the download button)
Rerun ==
    /\ PageShown
    /\ Script(uploaded, "rerun", "none", "", << >>, << >>, << >>)
    /\ UNCHANGED <<uploaded, step, ingestVars, freqVars>>

Next == Upload \/ RemoveFile \/ SearchRefresh \/ TagRows \/ Rerun

Spec == Init /\ [][Next]_vars


(***************************************************************************)
(* Properties of the script (Spec)                                         *)
(***************************************************************************)
\* A Category value that is null, empty or whitespace-only
UntaggedValue(c) ==
    \/ c.k = "null"
    \/ c.k = "str" /\ \A p \in 1..Len(c.s) : IsSpace(c.s[p])

\* s without its leading and trailing whitespace, stated by positions
IsTrimOf(t, s) ==
    \E a \in 0..Len(s) :
        /\ \A p \in 1..a : IsSpace(s[p])
        /\ \A p \in (a + Len(t) + 1)..Len(s) : IsSpace(s[p])
        /\ a + Len(t) <= Len(s)
        /\ t = SubSeq(s, a + 1, a + Len(t))
        /\ t # << >> => ~IsSpace(t[1]) /\ ~IsSpace(t[Len(t)])

\* kw occurs in text as a literal substring, letter case ignored
OccursIgnoringCase(kw, text) ==
    \E off \in 0..(Len(text) - Len(kw)) :
        \A p \in 1..Len(kw) : LowerChar(text[off + p]) = LowerChar(kw[p])

\* The text of a cell, null taken as the empty string
TextOf(c) == IF c.k = "null" THEN << >> ELSE PyStr(c)

\* The mask the page shows: the session's, else the untagged rows
CurrentMask ==
    IF session_mask # None THEN Get(session_mask)
    ELSE untagged_mask(Get(session_df))

\* C1: a Tag press whose category or subcategory is empty after trimming, or
\* whose mask selects no row, changes no cell of the table and leaves the
\* session mask as it was.
C1_TagPreconditionNoOp ==
    (/\ last.op = "tag"
     /\ ~last.raised
     /\ last.mask # None
     /\ \/ IsTrimOf(<< >>, last.cat)
        \/ IsTrimOf(<< >>, last.sub)
        \/ ~MaskAny(Get(last.mask)))
    => /\ session_df = last.df
       /\ session_mask = last.smask

\* C2: in every state of a session (whose latest run showed the page) every
\* row the current mask selects is an untagged row of the current table.
C2_MaskSelectsUntaggedOnly ==
    (session_df # None /\ ~last.raised) =>
        \A i \in 1..Len(CurrentMask) :
            (CurrentMask[i] /\ i <= n_rows(Get(session_df)))
            => UntaggedValue(Get(session_df).data["Category"][i])

C4_TagsPersist ==
    [][(/\ last.tagged
        /\ uploaded' = uploaded
        /\ last'.op \in {"search", "rerun"})
       => \A i \in 1..Len(Get(last.mask)) :
            Get(last.mask)[i] /\ i <= n_rows(Get(session_df))
            => /\ Get(session_df').data["Category"][i]
                    = Get(session_df).data["Category"][i]
               /\ Get(session_df').data["Subcategory"][i]
                    = Get(session_df).data["Subcategory"][i]]_vars

Rectangular(f) == \A r \in 1..Len(f.rows) : Len(f.rows[r]) = Len(f.headers)

\* The decimal separator of the CSV's dialect
DecimalOf(f) == IF f.sep = "," THEN "." ELSE ","

\* C5: reading a table's own export (',' separator, '.' decimal) gives a
\* table with the same columns and the same cell values.
C5_RoundTrip ==
    step = "reingested" => Get(table2) = Get(table)

\* C6: after ingestion and ensure_tag_columns the columns Category and
\* Subcategory exist, and every column has as many cells as the CSV has
\* data rows.
C6_ColumnsFullLength ==
    step = "ensured" =>
        LET df == Get(table) IN
        /\ HasColumn(df, "Category")
        /\ HasColumn(df, "Subcategory")
        /\ \A c \in Range(df.columns) :
             Len(df.data[c]) = Len(Get(csv_in).rows)

\* C7: an empty field is stored as null, and a non-empty field that is no
\* number after the decimal separator is replaced is stored as the field's
\* own text (stated for the CSVs whose rows all have one field per header).
C7_FieldKeptAsRead ==
    (step = "ingested" /\ Rectangular(Get(csv_in))) =>
        LET f == Get(csv_in) IN
        \A r \in 1..Len(f.rows) : \A j \in 1..Len(f.headers) :
            LET val  == f.rows[r][j]
                cell == Get(table).data[f.headers[j]][r]
            IN /\ val = << >> => cell = Null
               /\ (val # << >>
                   /\ ~IsFloatLiteral(Replace(val, DecimalOf(f), ".")))
                  => cell = Str(val)

(***************************************************************************)
(* Properties of most_common (SpecFreq)                                    *)
(***************************************************************************)
\* The text normalise splits: upper case, every character that is neither
\* a word character nor whitespace turned into a blank
Cleaned(c) ==
    [p \in 1..Len(PyStr(c)) |->
        LET u == UpperChar(PyStr(c)[p])
        IN IF IsWordChar(u) \/ IsSpace(u) THEN u ELSE " "]

\* text[a..b] is a token: a maximal run of non-blank characters
TokenAt(text, a, b) ==
    /\ 1 <= a /\ a <= b /\ b <= Len(text)
    /\ \A p \in a..b : ~IsSpace(text[p])
    /\ a = 1 \/ IsSpace(text[a - 1])
    /\ b = Len(text) \/ IsSpace(text[b + 1])

\* The places <<cell, first, last>> of the tokens of the non-null cells
TokenPlaces(series) ==
    {pl \in UNION {{<<i, a, b>> : a \in 1..Len(PyStr(series[i])),
                                  b \in 1..Len(PyStr(series[i]))} :
                   i \in {n \in 1..Len(series) : series[n].k # "null"}} :
        TokenAt(Cleaned(series[pl[1]]), pl[2], pl[3])}

TokenOf(series, pl) == SubSeq(Cleaned(series[pl[1]]), pl[2], pl[3])

Occurrences(series, w) ==
    Cardinality({pl \in TokenPlaces(series) : TokenOf(series, pl) = w})

\* w is counted: no stopword and at least min_len long
Counted(w, min_len) == w \notin STOPWORDS /\ Len(w) >= min_len

\* place x comes before place y in the column's row order
Before(x, y) == x[1] < y[1] \/ (x[1] = y[1] /\ x[2] < y[2])

\* w occurs before any occurrence of v
FirstSeenBefore(series, w, v) ==
    \E x \in TokenPlaces(series) :
        /\ TokenOf(series, x) = w
        /\ \A y \in TokenPlaces(series) :
             TokenOf(series, y) = v => Before(x, y)

\* C9: most_common returns at most k rows, by descending count with ties
\* in order of first occurrence; each keyword is a counted token of a
\* non-null cell with its number of occurrences in the column; no counted
\* token outside the result occurs more often than one inside it.
C9_MostCommonRanking ==
    (step = "returned" /\ ~Get(freq_df).raised) =>
        LET a    == Get(fq_in)
            rows == Get(freq_df).rows
            kws  == {rows[i].keyword : i \in 1..Len(rows)}
        IN /\ Len(rows) <= a.k
           /\ \A i \in 1..Len(rows) :
                /\ Counted(rows[i].keyword, a.min_len)
                /\ Occurrences(a.series, rows[i].keyword) >= 1
                /\ rows[i].count = Occurrences(a.series, rows[i].keyword)
           /\ \A i, j \in 1..Len(rows) :
                i < j =>
                  \/ rows[i].count > rows[j].count
                  \/ /\ rows[i].count = rows[j].count
                     /\ FirstSeenBefore(a.series, rows[i].keyword,
                                        rows[j].keyword)
           /\ \A pl \in TokenPlaces(a.series) :
                LET w == TokenOf(a.series, pl)
                IN (Counted(w, a.min_len) /\ w \notin kws) =>
                     \A i \in 1..Len(rows) :
                        Occurrences(a.series, w) <= rows[i].count

\* C9 witness: two keywords returned with equal counts while a third counted
\* token, which occurs less often, is left out.
C9_Witness ==
    /\ step = "returned"
    /\ ~Get(freq_df).raised
    /\ Len(Get(freq_df).rows) = 2
    /\ Get(freq_df).rows[1].count = 2
    /\ Get(freq_df).rows[2].count = 2
    /\ \E pl \in TokenPlaces(Get(fq_in).series) :
         /\ Counted(TokenOf(Get(fq_in).series, pl), Get(fq_in).min_len)
         /\ \A i \in 1..2 : Get(freq_df).rows[i].keyword
                              # TokenOf(Get(fq_in).series, pl)

\* C10: with an empty token bag most_common returns an empty result and
\* raises no error.
C10_EmptyBagEmptyResult ==
    (/\ step = "returned"
     /\ \A pl \in TokenPlaces(Get(fq_in).series) :
          ~Counted(TokenOf(Get(fq_in).series, pl), Get(fq_in).min_len))
    => /\ ~Get(freq_df).raised
       /\ Get(freq_df).rows = << >>

=============================================================================
